---- MODULE Spec2Model ----
(***************************************************************************)
(* Model of the Enigma machine emulation of CyberChef:                     *)
(*   src/src/core/lib/Enigma.mjs         (a2i, i2a, Rotor, PairMapBase,    *)
(*                                        Reflector, Plugboard, EnigmaBase)*)
(*   src/src/core/operations/Enigma.mjs  (the same classes, and the        *)
(*                                        operation Enigma.run)            *)
(*                                                                         *)
(* A JavaScript string is a sequence of one-character strings; a character *)
(* is turned into its code by ord, as Utils.ord does.  A JavaScript object *)
(* used as a map ({}), and a Set, are a function on the set of its keys    *)
(* and a set.                                                              *)
(***************************************************************************)
EXTENDS Integers, Sequences, FiniteSets, TLC

\* ------------------------------------------------------------------------
\* Bounds of the model
\* ------------------------------------------------------------------------

\* Longest input enumerated exhaustively over InputChars.
MaxLen == 3

\* Longest pair string enumerated exhaustively over PairChars.
MaxPairLen == 5

\* ------------------------------------------------------------------------
\* Characters (Utils.ord, Utils.chr, Utils.mod) and the letter codec
\* ------------------------------------------------------------------------

LETTERS == <<"A","B","C","D","E","F","G","H","I","J","K","L","M",
             "N","O","P","Q","R","S","T","U","V","W","X","Y","Z">>

LOWER == <<"a","b","c","d","e","f","g","h","i","j","k","l","m",
           "n","o","p","q","r","s","t","u","v","w","x","y","z">>

\* The character codes.  Beside the letters, the characters the model feeds
\* to the program are the ones around the two letter ranges ("@" 64, "[" 91,
\* "_" 95, "{" 123), a digit, "<" and white space.
CharCodes ==
    [c \in {LETTERS[k] : k \in 1..26} |-> 64 + (CHOOSE k \in 1..26 : LETTERS[k] = c)]
    @@ [c \in {LOWER[k] : k \in 1..26} |-> 96 + (CHOOSE k \in 1..26 : LOWER[k] = c)]
    @@ ("\t" :> 9) @@ (" " :> 32) @@ ("1" :> 49) @@ ("<" :> 60) @@ ("@" :> 64)
    @@ ("[" :> 91) @@ ("_" :> 95) @@ ("{" :> 123)

\* Utils.ord: the character's code.
ord(c) == CharCodes[c]

\* Utils.chr, on the codes i2a passes to it (65..90).
chr(n) == LETTERS[n - 64]

\* JavaScript's remainder x % y (the sign of the result is the sign of x).
JsRem(x, y) == IF x >= 0 THEN x % y ELSE 0 - ((0 - x) % y)

\* Utils.mod(x, y) = ((x % y) + y) % y.
mod(x, y) == JsRem(JsRem(x, y) + y, y)

\* a2i with a fault: the permissive range ends one code too late, so "{"
\* counts as a letter.
a2iWide(c, permissive) ==
    LET i == ord(c) IN
    IF i >= 65 /\ i <= 90 THEN i - 65
    ELSE IF permissive /\ i >= 97 /\ i <= 123 THEN i - 97
    ELSE 0 - 1

\* a2i(c, permissive): the value returned ...
a2i(c, permissive) ==
    LET i == ord(c) IN
    IF i >= 65 /\ i <= 90 THEN i - 65
    ELSE IF permissive /\ i >= 97 /\ i <= 122 THEN i - 97
    ELSE 0 - 1

\* ... and whether it throws instead ("a2i called on non-uppercase ASCII
\* character").
a2iThrows(c, permissive) ==
    LET i == ord(c) IN ~(i >= 65 /\ i <= 90) /\ ~permissive

\* i2a(i): whether it throws ("i2a called on value outside 0..25") ...
i2aThrows(i) == ~(i >= 0 /\ i < 26)

\* ... and the letter it returns otherwise.
i2a(i) == chr(i + 65)

\* s.match(/^[A-Z]{lo,hi}$/)
MatchUpper(s, lo, hi) ==
    /\ Len(s) >= lo
    /\ Len(s) <= hi
    /\ \A k \in 1..Len(s) : LET i == ord(s[k]) IN i >= 65 /\ i <= 90

\* ------------------------------------------------------------------------
\* The catalog
\* ------------------------------------------------------------------------

\* ROTORS, by name: wiring, "<", stepping points.
ROTORS ==
    [I |->
       \* EKMFLGDQVZNTOWYHXUSPAIBRCJ<R
       <<"E","K","M","F","L","G","D","Q","V","Z","N","T","O","W","Y","H","X","U","S","P","A","I","B","R","C","J","<","R">>,
     II |->
       \* AJDKSIRUXBLHWTMCQGZNPYFVOE<F
       <<"A","J","D","K","S","I","R","U","X","B","L","H","W","T","M","C","Q","G","Z","N","P","Y","F","V","O","E","<","F">>,
     III |->
       \* BDFHJLCPRTXVZNYEIWGAKMUSQO<W
       <<"B","D","F","H","J","L","C","P","R","T","X","V","Z","N","Y","E","I","W","G","A","K","M","U","S","Q","O","<","W">>,
     IV |->
       \* ESOVPZJAYQUIRHXLNFTGKDCMWB<K
       <<"E","S","O","V","P","Z","J","A","Y","Q","U","I","R","H","X","L","N","F","T","G","K","D","C","M","W","B","<","K">>,
     V |->
       \* VZBRGITYUPSDNHLXAWMJQOFECK<A
       <<"V","Z","B","R","G","I","T","Y","U","P","S","D","N","H","L","X","A","W","M","J","Q","O","F","E","C","K","<","A">>,
     VI |->
       \* JPGVOUMFYQBENHZRDKASXLICTW<AN
       <<"J","P","G","V","O","U","M","F","Y","Q","B","E","N","H","Z","R","D","K","A","S","X","L","I","C","T","W","<","A","N">>,
     VII |->
       \* NZJHGRCXMYSWBOUFAIVLPEKQDT<AN
       <<"N","Z","J","H","G","R","C","X","M","Y","S","W","B","O","U","F","A","I","V","L","P","E","K","Q","D","T","<","A","N">>,
     VIII |->
       \* FKQHTLXOCBJSPDZRAMEWNIUYGV<AN
       <<"F","K","Q","H","T","L","X","O","C","B","J","S","P","D","Z","R","A","M","E","W","N","I","U","Y","G","V","<","A","N">>,
     Beta |->
       \* LEYJVCNIXWPBQMDRTAKZGFUHOS
       <<"L","E","Y","J","V","C","N","I","X","W","P","B","Q","M","D","R","T","A","K","Z","G","F","U","H","O","S">>,
     Gamma |->
       \* FSOKANUERHMBTIYCWLQPZXVGJD
       <<"F","S","O","K","A","N","U","E","R","H","M","B","T","I","Y","C","W","L","Q","P","Z","X","V","G","J","D">>]

\* REFLECTORS, by name ("B Thin" is BThin, "C Thin" is CThin).
REFLECTORS ==
    [B |->
       \* AY BR CU DH EQ FS GL IP JX KN MO TZ VW
       <<"A","Y"," ","B","R"," ","C","U"," ","D","H"," ","E","Q"," ","F","S"," ","G","L"," ","I","P"," ","J","X"," ","K","N"," ","M","O"," ","T","Z"," ","V","W">>,
     C |->
       \* AF BV CP DJ EI GO HY KR LZ MX NW TQ SU
       <<"A","F"," ","B","V"," ","C","P"," ","D","J"," ","E","I"," ","G","O"," ","H","Y"," ","K","R"," ","L","Z"," ","M","X"," ","N","W"," ","T","Q"," ","S","U">>,
     BThin |->
       \* AE BN CK DQ FU GY HW IJ LO MP RX SZ TV
       <<"A","E"," ","B","N"," ","C","K"," ","D","Q"," ","F","U"," ","G","Y"," ","H","W"," ","I","J"," ","L","O"," ","M","P"," ","R","X"," ","S","Z"," ","T","V">>,
     CThin |->
       \* AR BD CO EJ FN GT HK IV LM PW QZ SX UY
       <<"A","R"," ","B","D"," ","C","O"," ","E","J"," ","F","N"," ","G","T"," ","H","K"," ","I","V"," ","L","M"," ","P","W"," ","Q","Z"," ","S","X"," ","U","Y">>]

\* ------------------------------------------------------------------------
\* Rotor
\* ------------------------------------------------------------------------

\* What a constructor that threw yields: the message of its OperationError.
Threw(msg) == [err |-> msg, obj |-> <<>>]

\* The loop of Rotor.constructor: this.map[a] = b and this.revMap[b] = a for
\* a = 0, 1, ..., 25, b the a-th letter of the wiring; in revMap an
\* assignment replaces an earlier one to the same b.
RotorMaps(wiring) ==
    LET m == [a \in 0..25 |-> a2i(wiring[a + 1], FALSE)] IN
    [map    |-> m,
     revMap |-> [b \in {m[a] : a \in 0..25} |->
                    CHOOSE a \in 0..25 :
                        m[a] = b /\ \A a2 \in (a + 1)..25 : m[a2] # b]]

\* The uniqueness check with a fault: it counts the keys of map, which are
\* always 26.
WiringRepeatsByMap(maps) == Cardinality(DOMAIN maps.map) # Len(LETTERS)

\* Object.keys(this.revMap).length !== LETTERS.length
WiringRepeats(maps) == Cardinality(DOMAIN maps.revMap) # Len(LETTERS)

\* this.steps with a fault: the ring setting is not taken off.
RotorStepsNoRing(steps, rs) ==
    {mod(a2i(steps[k], FALSE), 26) : k \in 1..Len(steps)}

\* this.steps: each step letter, less the ring setting, modulo 26.
RotorSteps(steps, rs) ==
    {mod(a2i(steps[k], FALSE) - rs, 26) : k \in 1..Len(steps)}

\* Rotor.constructor, its checks in the order of the code: the error thrown
\* (err, "" for none) and the rotor constructed (obj).
Rotor(wiring, steps, ringSetting, initialPosition) ==
    IF ~MatchUpper(wiring, 26, 26)
    THEN Threw("Rotor wiring must be 26 unique uppercase letters")
    ELSE IF ~MatchUpper(steps, 0, 26)
    THEN Threw("Rotor steps must be 0-26 unique uppercase letters")
    ELSE IF ~MatchUpper(ringSetting, 1, 1)
    THEN Threw("Rotor ring setting must be exactly one uppercase letter")
    ELSE IF ~MatchUpper(initialPosition, 1, 1)
    THEN Threw("Rotor initial position must be exactly one uppercase letter")
    ELSE LET maps == RotorMaps(wiring) IN
    IF WiringRepeats(maps)
    THEN Threw("Rotor wiring must have each letter exactly once")
    ELSE LET rs == a2i(ringSetting[1], FALSE)
             st == RotorSteps(steps, rs)
         IN
    IF Cardinality(st) # Len(steps)
    THEN Threw("Rotor steps must be unique")
    ELSE [err |-> "",
          obj |-> [map    |-> maps.map,
                   revMap |-> maps.revMap,
                   steps  |-> st,
                   pos    |-> mod(a2i(initialPosition[1], FALSE) - rs, 26)]]

\* Rotor.step with a fault: the position is not reduced modulo 26.
RotorStepNoMod(r) == [r EXCEPT !.pos = r.pos + 1]

\* Rotor.step: the rotor after it.
RotorStep(r) == [r EXCEPT !.pos = mod(r.pos + 1, 26)]

\* Rotor.transform with a fault: the position is not taken off the output.
RotorTransformNoOffset(r, c) == mod(r.map[mod(c + r.pos, 26)], 26)

\* Rotor.transform with a fault: the position is not added to the input.
RotorTransformOffsetOut(r, c) == mod(r.map[mod(c, 26)] - r.pos, 26)

\* Rotor.transform
RotorTransform(r, c) == mod(r.map[mod(c + r.pos, 26)] - r.pos, 26)

\* Rotor.revTransform with a fault: it reads map where the code reads revMap.
RotorRevTransformByMap(r, c) == mod(r.map[mod(c + r.pos, 26)] - r.pos, 26)

\* Rotor.revTransform with a fault: the difference is not reduced modulo 26.
RotorRevTransformNoMod(r, c) == r.revMap[mod(c + r.pos, 26)] - r.pos

\* Rotor.revTransform
RotorRevTransform(r, c) == mod(r.revMap[mod(c + r.pos, 26)] - r.pos, 26)

\* ------------------------------------------------------------------------
\* PairMapBase, Reflector, Plugboard
\* ------------------------------------------------------------------------

\* \s of a regular expression, among the characters of the model.
IsSpace(c) == c \in {" ", "\t"}

\* pairs.split(/\s+/): the pieces between the maximal runs of white space;
\* a string that starts or ends with white space has an empty first or last
\* piece.
RECURSIVE SplitFrom(_, _, _, _)
SplitFrom(s, k, cur, acc) ==
    IF k > Len(s) THEN Append(acc, cur)
    ELSE IF IsSpace(s[k])
    THEN IF k > 1 /\ IsSpace(s[k - 1])
         THEN SplitFrom(s, k + 1, cur, acc)
         ELSE SplitFrom(s, k + 1, <<>>, Append(acc, cur))
    ELSE SplitFrom(s, k + 1, Append(cur, s[k]), acc)

Split(s) == SplitFrom(s, 1, <<>>, <<>>)

\* The forEach with a fault: only map[a] = b is assigned.
RECURSIVE PairsFromOneWay(_, _, _)
PairsFromOneWay(tokens, k, map) ==
    IF k > Len(tokens) THEN [err |-> "", obj |-> map]
    ELSE LET pair == tokens[k] IN
         IF ~MatchUpper(pair, 2, 2)
         THEN Threw("must be a whitespace-separated list of uppercase letter pairs")
         ELSE LET a == a2i(pair[1], FALSE)
                  b == a2i(pair[2], FALSE)
              IN  IF a = b
                  THEN Threw("cannot connect a letter to itself")
                  ELSE IF a \in DOMAIN map
                  THEN Threw("connects the first letter more than once")
                  ELSE IF b \in DOMAIN map
                  THEN Threw("connects the second letter more than once")
                  ELSE PairsFromOneWay(tokens, k + 1, (a :> b) @@ map)

\* The forEach with a fault: the second letter is not looked up in the map.
RECURSIVE PairsFromNoSecond(_, _, _)
PairsFromNoSecond(tokens, k, map) ==
    IF k > Len(tokens) THEN [err |-> "", obj |-> map]
    ELSE LET pair == tokens[k] IN
         IF ~MatchUpper(pair, 2, 2)
         THEN Threw("must be a whitespace-separated list of uppercase letter pairs")
         ELSE LET a == a2i(pair[1], FALSE)
                  b == a2i(pair[2], FALSE)
              IN  IF a = b
                  THEN Threw("cannot connect a letter to itself")
                  ELSE IF a \in DOMAIN map
                  THEN Threw("connects the first letter more than once")
                  ELSE PairsFromNoSecond(tokens, k + 1, (b :> a) @@ (a :> b) @@ map)

\* The forEach of PairMapBase.constructor from token k on, this.map being
\* map: the error thrown (err, "" for none) and this.map at the end (obj).
RECURSIVE PairsFrom(_, _, _)
PairsFrom(tokens, k, map) ==
    IF k > Len(tokens) THEN [err |-> "", obj |-> map]
    ELSE LET pair == tokens[k] IN
         IF ~MatchUpper(pair, 2, 2)
         THEN Threw("must be a whitespace-separated list of uppercase letter pairs")
         ELSE LET a == a2i(pair[1], FALSE)
                  b == a2i(pair[2], FALSE)
              IN  IF a = b
                  THEN Threw("cannot connect a letter to itself")
                  ELSE IF a \in DOMAIN map
                  THEN Threw("connects the first letter more than once")
                  ELSE IF b \in DOMAIN map
                  THEN Threw("connects the second letter more than once")
                  ELSE PairsFrom(tokens, k + 1, (b :> a) @@ (a :> b) @@ map)

\* PairMapBase.constructor: this.map = {}; nothing more for the empty string.
PairMapBase(pairs) ==
    IF pairs = <<>> THEN [err |-> "", obj |-> <<>>]
    ELSE PairsFrom(Split(pairs), 1, <<>>)

\* Plugboard.constructor
Plugboard(pairs) == PairMapBase(pairs)

\* Reflector.constructor with a fault: the number of keys is not checked.
ReflectorAnySize(pairs) == PairMapBase(pairs)

\* Reflector.constructor
Reflector(pairs) ==
    LET base == PairMapBase(pairs) IN
    IF base.err # "" THEN base
    ELSE IF Cardinality(DOMAIN base.obj) # 26
    THEN Threw("Reflector must have exactly 13 pairs covering every letter")
    ELSE base

\* PairMapBase.transform
PairTransform(map, c) == IF ~(c \in DOMAIN map) THEN c ELSE map[c]

\* PairMapBase.revTransform
PairRevTransform(map, c) == PairTransform(map, c)

\* ------------------------------------------------------------------------
\* EnigmaMachine
\* ------------------------------------------------------------------------

\* EnigmaMachine.constructor with a fault: only too few rotors are refused.
EnigmaMachineErrorMin(rs) ==
    IF Len(rs) < 3 THEN "Enigma must have 3 or 4 rotors" ELSE ""

\* EnigmaMachine.constructor: the error it throws, "" for none.
EnigmaMachineError(rs) ==
    IF Len(rs) # 3 /\ Len(rs) # 4 THEN "Enigma must have 3 or 4 rotors" ELSE ""

\* The constructor with a fault: rotors.reverse() without the copy reverses
\* the list it stores.
EnigmaBaseReversing(rs, refl, plug) ==
    [err |-> "",
     obj |-> [rotors |-> [k \in 1..Len(rs) |-> rs[Len(rs) + 1 - k]],
              reflector |-> refl, plugboard |-> plug]]

\* EnigmaBase.constructor (lib): it stores what it is given and throws
\* nothing.
EnigmaBase(rs, refl, plug) ==
    [err |-> "", obj |-> [rotors |-> rs, reflector |-> refl, plugboard |-> plug]]

\* EnigmaMachine.constructor: the error thrown and the machine constructed.
EnigmaMachine(rs, refl, plug) ==
    IF EnigmaMachineError(rs) # "" THEN Threw(EnigmaMachineError(rs))
    ELSE EnigmaBase(rs, refl, plug)

\* this.rotorsRev = [].concat(rotors).reverse(): the same rotor objects, in
\* the reverse order.
RotorsRev(rs) == [k \in 1..Len(rs) |-> rs[Len(rs) + 1 - k]]

\* EnigmaMachine.step with a fault: rotor 0's notch is tested at the position
\* it had before its advance.
EnigmaStepOldPos(rs) ==
    LET r0 == RotorStep(rs[1])
        r1 == rs[2]
    IN  IF rs[1].pos \in r0.steps \/ mod(r1.pos + 1, 26) \in r1.steps
        THEN LET r1s == RotorStep(r1) IN
             IF r1s.pos \in r1s.steps
             THEN [rs EXCEPT ![1] = r0, ![2] = r1s, ![3] = RotorStep(rs[3])]
             ELSE [rs EXCEPT ![1] = r0, ![2] = r1s]
        ELSE [rs EXCEPT ![1] = r0]

\* EnigmaMachine.step with a fault: rotor 1's notch is tested at the position
\* it had before its advance.
EnigmaStepEarlyTest(rs) ==
    LET r0 == RotorStep(rs[1])
        r1 == rs[2]
    IN  IF r0.pos \in r0.steps \/ mod(r1.pos + 1, 26) \in r1.steps
        THEN LET r1s == RotorStep(r1) IN
             IF r1.pos \in r1.steps
             THEN [rs EXCEPT ![1] = r0, ![2] = r1s, ![3] = RotorStep(rs[3])]
             ELSE [rs EXCEPT ![1] = r0, ![2] = r1s]
        ELSE [rs EXCEPT ![1] = r0]

\* EnigmaMachine.step with a fault: the carry goes on, rotor 2 at its notch
\* steps a fourth rotor.
EnigmaStepCascade(rs) ==
    LET r0 == RotorStep(rs[1])
        r1 == rs[2]
    IN  IF r0.pos \in r0.steps \/ mod(r1.pos + 1, 26) \in r1.steps
        THEN LET r1s == RotorStep(r1) IN
             IF r1s.pos \in r1s.steps
             THEN LET r2s == RotorStep(rs[3]) IN
                  IF Len(rs) > 3 /\ r2s.pos \in r2s.steps
                  THEN [rs EXCEPT ![1] = r0, ![2] = r1s, ![3] = r2s,
                                  ![4] = RotorStep(rs[4])]
                  ELSE [rs EXCEPT ![1] = r0, ![2] = r1s, ![3] = r2s]
             ELSE [rs EXCEPT ![1] = r0, ![2] = r1s]
        ELSE [rs EXCEPT ![1] = r0]

\* EnigmaMachine.step with a fault: the second rotor steps only when the
\* first is at its notch, never for its own notch.
EnigmaStepNoDouble(rs) ==
    LET r0 == RotorStep(rs[1])
        r1 == rs[2]
    IN  IF r0.pos \in r0.steps
        THEN LET r1s == RotorStep(r1) IN
             IF r1s.pos \in r1s.steps
             THEN [rs EXCEPT ![1] = r0, ![2] = r1s, ![3] = RotorStep(rs[3])]
             ELSE [rs EXCEPT ![1] = r0, ![2] = r1s]
        ELSE [rs EXCEPT ![1] = r0]

\* EnigmaMachine.step: the rotors after it.
EnigmaStep(rs) ==
    LET r0 == RotorStep(rs[1])
        r1 == rs[2]
    IN  IF r0.pos \in r0.steps \/ mod(r1.pos + 1, 26) \in r1.steps
        THEN LET r1s == RotorStep(r1) IN
             IF r1s.pos \in r1s.steps
             THEN [rs EXCEPT ![1] = r0, ![2] = r1s, ![3] = RotorStep(rs[3])]
             ELSE [rs EXCEPT ![1] = r0, ![2] = r1s]
        ELSE [rs EXCEPT ![1] = r0]

\* step() on a list of fewer than three rotors: whether it ends in a
\* TypeError (a rotor it reads is undefined) ...
StepThrows(rs) ==
    \/ Len(rs) < 2
    \/ /\ Len(rs) = 2
       /\ LET r0 == RotorStep(rs[1])
              r1s == RotorStep(rs[2])
          IN  /\ r0.pos \in r0.steps \/ r1s.pos \in r1s.steps
              /\ r1s.pos \in r1s.steps

\* ... and the rotors as the TypeError leaves them: those stepped before it.
StepBeforeThrow(rs) ==
    IF Len(rs) = 0 THEN rs
    ELSE IF Len(rs) = 1 THEN [rs EXCEPT ![1] = RotorStep(rs[1])]
    ELSE [rs EXCEPT ![1] = RotorStep(rs[1]), ![2] = RotorStep(rs[2])]

\* for (const rotor of rotors) letter = rotor.transform(letter), from rotor k.
RECURSIVE ThroughRotors(_, _, _)
ThroughRotors(rs, k, letter) ==
    IF k > Len(rs) THEN letter
    ELSE ThroughRotors(rs, k + 1, RotorTransform(rs[k], letter))

\* for (const rotor of rotorsRev) letter = rotor.revTransform(letter).
RECURSIVE BackThroughRotors(_, _, _)
BackThroughRotors(rsRev, k, letter) ==
    IF k > Len(rsRev) THEN letter
    ELSE BackThroughRotors(rsRev, k + 1, RotorRevTransform(rsRev[k], letter))

\* The signal path with a fault: the way back runs through this.rotors, not
\* through rotorsRev.
EncipherSameOrder(rs, refl, plug, letter) ==
    LET l1 == PairTransform(plug, letter)
        l2 == ThroughRotors(rs, 1, l1)
        l3 == PairTransform(refl, l2)
        l4 == BackThroughRotors(rs, 1, l3)
    IN  PairRevTransform(plug, l4)

\* The body of crypt's loop with a fault: the reflector is left out.
EncipherNoReflector(rs, refl, plug, letter) ==
    LET l1 == PairTransform(plug, letter)
        l2 == ThroughRotors(rs, 1, l1)
        l4 == BackThroughRotors(RotorsRev(rs), 1, l2)
    IN  PairRevTransform(plug, l4)

\* The body of crypt's loop for a letter, after step(): the index handed to
\* i2a.  rs are the rotors after the step.
Encipher(rs, refl, plug, letter) ==
    LET l1 == PairTransform(plug, letter)
        l2 == ThroughRotors(rs, 1, l1)
        l3 == PairTransform(refl, l2)
        l4 == BackThroughRotors(RotorsRev(rs), 1, l3)
    IN  PairRevTransform(plug, l4)

\* The rotor positions, in the order of the rotors.
Positions(rs) == [k \in 1..Len(rs) |-> rs[k].pos]

\* ------------------------------------------------------------------------
\* Enigma.run
\* ------------------------------------------------------------------------

\* Enigma.parseRotorStr: whether it throws ("Rotor ${i} must be provided.").
ParseRotorStrThrows(rotor) == rotor = <<>>

\* The index of the first "<" of s at or after k, Len(s) + 1 when none.
RECURSIVE NextLt(_, _)
NextLt(s, k) ==
    IF k > Len(s) \/ s[k] = "<" THEN k ELSE NextLt(s, k + 1)

\* Enigma.parseRotorStr: [rotor, ""] without a "<", else rotor.split("<", 2),
\* the first two of the pieces between the "<".
ParseRotorStr(rotor) ==
    LET p == NextLt(rotor, 1) IN
    IF p > Len(rotor) THEN <<rotor, <<>>>>
    ELSE <<SubSeq(rotor, 1, p - 1), SubSeq(rotor, p + 1, NextLt(rotor, p + 1) - 1)>>

\* The rotor specifications run builds rotors from, in order: string, ring
\* setting, initial position.  The fourth only when its string is not empty,
\* with ring setting "A".
RotorSpecs(a) ==
    <<[str |-> a.rotor1str, ring |-> a.rotor1ring, pos |-> a.rotor1pos],
      [str |-> a.rotor2str, ring |-> a.rotor2ring, pos |-> a.rotor2pos],
      [str |-> a.rotor3str, ring |-> a.rotor3ring, pos |-> a.rotor3pos]>>
    \o (IF a.rotor4str # <<>>
        THEN <<[str |-> a.rotor4str, ring |-> <<"A">>, pos |-> a.rotor4pos]>>
        ELSE <<>>)

\* The pushes of run from rotor specification k on, rotors being acc: the
\* error thrown (err, "" for none) and the rotors pushed.
RECURSIVE PushRotors(_, _, _)
PushRotors(specs, k, acc) ==
    IF k > Len(specs) THEN [err |-> "", obj |-> acc]
    ELSE IF ParseRotorStrThrows(specs[k].str)
    THEN Threw("Rotor ${i} must be provided.")
    ELSE LET ws == ParseRotorStr(specs[k].str)
             r == Rotor(ws[1], ws[2], specs[k].ring, specs[k].pos)
         IN  IF r.err # "" THEN Threw(r.err)
             ELSE PushRotors(specs, k + 1, Append(acc, r.obj))

\* run up to the call of crypt (lines 445-462): the error thrown (err, ""
\* for none) and the machine constructed.  The rotors, the reflector, the
\* plugboard, then the machine.
Construct(a) ==
    LET pushed == PushRotors(RotorSpecs(a), 1, <<>>) IN
    IF pushed.err # "" THEN Threw(pushed.err)
    ELSE LET refl == Reflector(a.reflectorstr) IN
    IF refl.err # "" THEN Threw(refl.err)
    ELSE LET plug == Plugboard(a.plugboardstr) IN
    IF plug.err # "" THEN Threw(plug.err)
    ELSE EnigmaMachine(pushed.obj, refl.obj, plug.obj)

\* [A-Za-z]
IsLetter(c) ==
    \/ ord(c) >= 65 /\ ord(c) <= 90
    \/ ord(c) >= 97 /\ ord(c) <= 122

\* The stripping with a fault: the lowercase letters are removed too.
StripOtherLower(s) == SelectSeq(s, LAMBDA c : ord(c) >= 65 /\ ord(c) <= 90)

\* input.replace(/[^A-Za-z]/g, "")
StripOther(s) == SelectSeq(s, IsLetter)

\* The grouping with a fault: the lookahead (?!$) is missing, so five letters
\* that end the string are followed by a space too.
RECURSIVE GroupFromAll(_, _)
GroupFromAll(s, k) ==
    IF k > Len(s) THEN <<>>
    ELSE IF k + 4 <= Len(s) /\ MatchUpper(SubSeq(s, k, k + 4), 5, 5)
    THEN SubSeq(s, k, k + 4) \o <<" ">> \o GroupFromAll(s, k + 5)
    ELSE <<s[k]>> \o GroupFromAll(s, k + 1)

\* result.replace(/([A-Z]{5})(?!$)/g, "$1 "), scanning from index k: five
\* uppercase letters that do not end the string are followed by a space.
RECURSIVE GroupFrom(_, _)
GroupFrom(s, k) ==
    IF k > Len(s) THEN <<>>
    ELSE IF k + 5 <= Len(s) /\ MatchUpper(SubSeq(s, k, k + 4), 5, 5)
    THEN SubSeq(s, k, k + 4) \o <<" ">> \o GroupFrom(s, k + 5)
    ELSE <<s[k]>> \o GroupFrom(s, k + 1)

Group(s) == GroupFrom(s, 1)

\* ------------------------------------------------------------------------
\* State
\* ------------------------------------------------------------------------

VARIABLES
    args,       \* the arguments of run (the configuration), as named in run
    input,      \* the input string of the current call of run
    runNo,      \* 1 for the first call of run, 2 for the call on its output,
                \* 3 for a further call of crypt on the machine of the first
                \* call, 4 for the call of run on the inputs of both, 5 for
                \* the call of run with "Remove non-alphabet chars" changed
    pc,         \* "start", "crypt" (in crypt's loop), "done", "error"
    error,      \* the message of the OperationError thrown, "" for none
    rotors,     \* enigma.rotors, <<>> while there is no machine
    reflector,  \* enigma.reflector.map
    plugboard,  \* enigma.plugboard.map
    text,       \* the string crypt iterates over
    pos,        \* how many characters of text crypt has consumed
    result,     \* crypt's result so far
    output,     \* the string run returned
    stepLog,    \* the rotor positions at construction and after each step()
    calls,      \* the calls of crypt that returned: [input, result, steps,
                \* end (the rotor positions crypt left), out (what the
                \* caller of crypt returned, or had from crypt)]
    unit,       \* component harness: the constructor arguments under test
    built       \* component harness: what the constructor yielded

vars == <<args, input, runNo, pc, error, rotors, reflector, plugboard, text,
          pos, result, output, stepLog, calls, unit, built>>

machine == <<rotors, reflector, plugboard>>
harness == <<unit, built>>

\* ------------------------------------------------------------------------
\* Actions of a call of run
\* ------------------------------------------------------------------------

\* run, lines 445-462, when a construction throws: the operation ends.
RunThrows(c) ==
    /\ c.err # ""
    /\ error' = c.err
    /\ pc' = "error"
    /\ UNCHANGED <<args, input, runNo, machine, text, pos, result, output,
                   stepLog, calls, harness>>

\* The rotors crypt's loop starts from: crypt takes the machine as it is
\* (let result = ""; for (const l of input), lib lines 294-296).
CryptEntryRewound(rs) == [k \in 1..Len(rs) |-> [rs[k] EXCEPT !.pos = 0]]

CryptEntry(rs) == rs

\* run, lines 445-463, when no construction throws: the machine is built,
\* the input is stripped if asked, and crypt is entered.
RunCrypt(c) ==
    /\ c.err = ""
    /\ rotors' = CryptEntry(c.obj.rotors)
    /\ reflector' = c.obj.reflector
    /\ plugboard' = c.obj.plugboard
    /\ stepLog' = <<Positions(CryptEntry(c.obj.rotors))>>
    /\ text' = IF args.removeOther THEN StripOther(input) ELSE input
    /\ pos' = 0
    /\ result' = <<>>
    /\ pc' = "crypt"
    /\ UNCHANGED <<args, input, runNo, error, output, calls, harness>>

\* A call of run.
Run ==
    /\ pc = "start"
    /\ LET c == Construct(args) IN RunThrows(c) \/ RunCrypt(c)

\* crypt's test of a character: a2i(l, true) === -1, the character is passed
\* on without a step().
PassesOrA(l) == a2i(l, TRUE) < 1

Passes(l) == a2i(l, TRUE) = 0 - 1

\* crypt's loop on a character a2i(l, true) maps to -1: it is appended.
CryptOther ==
    /\ pc = "crypt"
    /\ pos < Len(text)
    /\ Passes(text[pos + 1])
    /\ result' = Append(result, text[pos + 1])
    /\ pos' = pos + 1
    /\ UNCHANGED <<args, input, runNo, pc, error, machine, text, output,
                   stepLog, calls, harness>>

\* crypt's loop on a letter: step(), the signal path, i2a.
CryptLetter ==
    /\ pc = "crypt"
    /\ pos < Len(text)
    /\ ~Passes(text[pos + 1])
    /\ LET rs == EnigmaStep(rotors)
           letter == Encipher(rs, reflector, plugboard, a2i(text[pos + 1], TRUE))
       IN  /\ rotors' = rs
           /\ stepLog' = Append(stepLog, Positions(rs))
           /\ IF i2aThrows(letter)
              THEN /\ pc' = "error"
                   /\ error' = "i2a called on value outside 0..25"
                   /\ UNCHANGED <<result, pos>>
              ELSE /\ result' = Append(result, i2a(letter))
                   /\ pos' = pos + 1
                   /\ UNCHANGED <<pc, error>>
    /\ UNCHANGED <<args, input, runNo, reflector, plugboard, text, output,
                   calls, harness>>

\* crypt returns; run groups the result if asked and returns it.
RunReturn ==
    /\ pc = "crypt"
    /\ runNo # 3
    /\ pos = Len(text)
    /\ output' = IF args.removeOther THEN Group(result) ELSE result
    /\ calls' = Append(calls, [input |-> text, result |-> result,
                               steps |-> Len(stepLog) - 1,
                               end |-> Positions(rotors),
                               out |-> output'])
    /\ pc' = "done"
    /\ UNCHANGED <<args, input, runNo, error, machine, text, pos, result,
                   stepLog, harness>>

\* The caller runs the operation again, with the same arguments, on what the
\* first call returned (deciphering).
RunAgain ==
    /\ pc = "done"
    /\ runNo = 1
    /\ runNo' = 2
    /\ input' = output
    /\ pc' = "start"
    /\ rotors' = <<>>
    /\ reflector' = <<>>
    /\ plugboard' = <<>>
    /\ text' = <<>>
    /\ pos' = 0
    /\ result' = <<>>
    /\ output' = <<>>
    /\ stepLog' = <<>>
    /\ UNCHANGED <<args, error, calls, harness>>

\* A caller that kept the machine of the first call calls crypt on it again,
\* with the input y.
CryptMore(y) ==
    /\ pc = "done"
    /\ runNo = 1
    /\ runNo' = 3
    /\ rotors' = CryptEntry(rotors)
    /\ stepLog' = <<Positions(CryptEntry(rotors))>>
    /\ text' = y
    /\ pos' = 0
    /\ result' = <<>>
    /\ pc' = "crypt"
    /\ UNCHANGED <<args, input, error, reflector, plugboard, output, calls,
                   harness>>

\* crypt returns to the caller that kept the machine.
CryptReturn ==
    /\ pc = "crypt"
    /\ runNo = 3
    /\ pos = Len(text)
    /\ calls' = Append(calls, [input |-> text, result |-> result,
                               steps |-> Len(stepLog) - 1,
                               end |-> Positions(rotors),
                               out |-> result])
    /\ pc' = "done"
    /\ UNCHANGED <<args, input, runNo, error, machine, text, pos, result,
                   output, stepLog, harness>>

\* The caller runs the operation, with the same arguments, on the inputs of
\* the two calls of crypt, one after the other.
RunFresh ==
    /\ pc = "done"
    /\ runNo = 3
    /\ runNo' = 4
    /\ input' = calls[1].input \o calls[2].input
    /\ pc' = "start"
    /\ rotors' = <<>>
    /\ reflector' = <<>>
    /\ plugboard' = <<>>
    /\ text' = <<>>
    /\ pos' = 0
    /\ result' = <<>>
    /\ output' = <<>>
    /\ stepLog' = <<>>
    /\ UNCHANGED <<args, error, calls, harness>>

\* The caller runs the operation again on the same input, with the same
\* arguments but for "Remove non-alphabet chars", which is changed.
RunOther ==
    /\ pc = "done"
    /\ runNo = 1
    /\ runNo' = 5
    /\ args' = [args EXCEPT !.removeOther = ~@]
    /\ pc' = "start"
    /\ rotors' = <<>>
    /\ reflector' = <<>>
    /\ plugboard' = <<>>
    /\ text' = <<>>
    /\ pos' = 0
    /\ result' = <<>>
    /\ output' = <<>>
    /\ stepLog' = <<>>
    /\ UNCHANGED <<input, error, calls, harness>>

\* ------------------------------------------------------------------------
\* The arguments and inputs the model runs the operation on
\* ------------------------------------------------------------------------

\* The strings over the characters S of length at most n.
StringsUpTo(S, n) == UNION {[1..k -> S] : k \in 0..n}

\* The one-letter strings ("option" arguments take their value in LETTERS).
LetterStrs == {<<LETTERS[k]>> : k \in 1..26}

\* The 14 arguments of run (args, lines 334-410; destructured at 437-444).
MkArgs(r1, r2, r3, r4, refl, plug, rm) ==
    [rotor1str |-> r1[1], rotor1ring |-> r1[2], rotor1pos |-> r1[3],
     rotor2str |-> r2[1], rotor2ring |-> r2[2], rotor2pos |-> r2[3],
     rotor3str |-> r3[1], rotor3ring |-> r3[2], rotor3pos |-> r3[3],
     rotor4str |-> r4[1], rotor4pos |-> r4[2],
     reflectorstr |-> refl, plugboardstr |-> plug, removeOther |-> rm]

\* No fourth rotor: {name: "None", value: ""}.
NoRotor == <<<<>>, <<"A">>>>

\* An edited rotor: the wiring of II, stepping at the adjacent letters E, F.
RotorEF == SubSeq(ROTORS.II, 1, 26) \o <<"<", "E", "F">>

\* An edited rotor: the wiring of III, stepping at every letter.
RotorAll == SubSeq(ROTORS.III, 1, 26) \o <<"<">> \o LETTERS

\* Plugboard strings: pairs separated by a space, by a tab and two spaces.
PlugABCZ == <<"A","B"," ","C","Z">>
PlugWide == <<"A","Z","\t"," "," ","B","Y">>

\* Valid configurations of three and four rotors: catalog and edited rotors,
\* several ring settings and initial positions, with and without plugs.
GeneralArgs ==
    {MkArgs(rr[1], rr[2], <<ROTORS.I, <<"A">>, <<"A">>>>, lr[1], lr[2], plug, rm) :
        rr \in {<<<<ROTORS.III, <<"A">>, <<"A">>>>, <<ROTORS.II, <<"A">>, <<"D">>>>>>,
                <<<<ROTORS.I, <<"B">>, <<"Q">>>>, <<ROTORS.VI, <<"C">>, <<"B">>>>>>},
        lr \in {<<NoRotor, REFLECTORS.B>>,
                <<<<ROTORS.Beta, <<"C">>>>, REFLECTORS.CThin>>,
                <<<<RotorAll, <<"Y">>>>, REFLECTORS.C>>},
        plug \in {<<>>, PlugABCZ},
        rm \in BOOLEAN}

\* The characters of the inputs enumerated exhaustively: an uppercase and a
\* lowercase letter, a digit.
InputChars == {"A", "z", "1"}

GeneralInputs == StringsUpTo(InputChars, MaxLen)

\* The characters next to the letter ranges, and the ends of the ranges.
EdgeChars == {"@", "[", "_", "{", "Z", "a", "\t", " ", "<"}

EdgeArgs ==
    {MkArgs(<<ROTORS.V, <<"Z">>, <<"A">>>>, <<ROTORS.IV, <<"A">>, <<"Z">>>>,
            <<ROTORS.VIII, <<"M">>, <<"N">>>>, <<ROTORS.Gamma, <<"Z">>>>,
            REFLECTORS.BThin, PlugWide, rm) : rm \in BOOLEAN}

EdgeInputs == StringsUpTo(EdgeChars, 2)

\* Every position of rotors 0 and 1, with one notch, two notches, adjacent
\* notches and notches everywhere, and four rotors of which rotor 2 is
\* carried onto its own notch, on three letters.
SteppingArgs ==
    {MkArgs(<<r[1], <<"A">>, p0>>, <<r[2], r[3], p1>>,
            <<ROTORS.I, <<"A">>, <<"Y">>>>, NoRotor, REFLECTORS.B, <<>>, FALSE) :
        r \in {<<ROTORS.III, ROTORS.II, <<"A">>>>,
               <<ROTORS.VI, RotorEF, <<"C">>>>},
        p0 \in LetterStrs, p1 \in LetterStrs}
    \cup
    {MkArgs(<<ROTORS.II, <<"B">>, p0>>, <<RotorAll, <<"A">>, <<"K">>>>,
            <<RotorEF, <<"A">>, <<"E">>>>, <<RotorAll, <<"Q">>>>,
            REFLECTORS.C, <<>>, FALSE) : p0 \in LetterStrs}
    \cup
    {MkArgs(<<ROTORS.III, <<"A">>, p0>>, <<ROTORS.II, <<"B">>, p1>>,
            <<RotorEF, <<"A">>, <<"D">>>>, <<RotorAll, <<"Q">>>>,
            REFLECTORS.B, PlugABCZ, FALSE) :
        p0 \in {<<"S">>, <<"U">>, <<"V">>}, p1 \in {<<"D">>, <<"E">>}}

SteppingInputs == {<<"A", "A", "A">>}

\* The default arguments (rotors III, II, I from the right-hand rotor on,
\* defaultIndex 2, 1, 0), and rotors I, II, III from the right-hand rotor on.
DefaultArgs ==
    MkArgs(<<ROTORS.III, <<"A">>, <<"A">>>>, <<ROTORS.II, <<"A">>, <<"A">>>>,
           <<ROTORS.I, <<"A">>, <<"A">>>>, NoRotor, REFLECTORS.B, <<>>, TRUE)

ReversedArgs ==
    MkArgs(<<ROTORS.I, <<"A">>, <<"A">>>>, <<ROTORS.II, <<"A">>, <<"A">>>>,
           <<ROTORS.III, <<"A">>, <<"A">>>>, NoRotor, REFLECTORS.B, <<>>, TRUE)

VectorArgs == {DefaultArgs, ReversedArgs}

VectorInputs == {<<"A", "A", "A", "A", "A">>}

\* Rotors without a notch, and the default rotors, the right-hand rotor at
\* position 0 (by ring setting A, and by ring setting C with initial value
\* C), on 27 letters and on "A1B".
CadenceArgs ==
    {MkArgs(<<r[1], rp, rp>>, <<r[2], <<"A">>, <<"E">>>>,
            <<r[3], <<"A">>, <<"A">>>>, r[4], REFLECTORS.B, PlugABCZ, FALSE) :
        r \in {<<ROTORS.Beta, ROTORS.Gamma, ROTORS.Beta, <<ROTORS.Gamma, <<"D">>>>>>,
               <<ROTORS.III, ROTORS.II, ROTORS.I, NoRotor>>},
        rp \in {<<"A">>, <<"C">>}}

CadenceInputs == {[k \in 1..27 |-> "A"], <<"A", "1", "B">>}

\* Inputs of 4 to 16 letters, and one of 10 letters among other characters,
\* with stripping enabled, on three and on four rotors.
GroupingArgs ==
    {DefaultArgs,
     MkArgs(<<ROTORS.IV, <<"B">>, <<"J">>>>, <<ROTORS.VII, <<"A">>, <<"M">>>>,
            <<ROTORS.V, <<"D">>, <<"A">>>>, <<ROTORS.Gamma, <<"F">>>>,
            REFLECTORS.CThin, PlugWide, TRUE)}

GroupingInputs ==
    {[k \in 1..n |-> IF k % 3 = 0 THEN LOWER[k] ELSE LETTERS[k]] :
        n \in {4, 6, 9, 10, 11, 12, 15, 16}}
    \cup {<<"a", "1", "B", " ", "c", "D", "e", "<", "f", "G", "\t", "h", "I", "j", "{">>}

\* The cases whose machine is kept for a further call of crypt (three and
\* four rotors with plugs, on the inputs of up to two characters and up to a
\* double step), and the inputs of that call.
SessionArgs ==
    {a \in GeneralArgs \cup SteppingArgs :
        /\ a.plugboardstr = PlugABCZ
        /\ ~a.removeOther
        /\ a.rotor4str \in {<<>>, RotorAll}}

SessionCases == SessionArgs \X (StringsUpTo(InputChars, 2) \cup SteppingInputs)

MoreInputs == {<<>>, <<"z">>, <<"1", "A">>, <<"A", "A">>}

\* The cases run again with "Remove non-alphabet chars" changed: three and
\* four rotors, inputs of up to two characters, the characters next to the
\* letter ranges, and inputs of more than five letters with and without
\* other characters.
StripCases ==
    ({a \in GeneralArgs \cup EdgeArgs : a.removeOther}
        \X (StringsUpTo(InputChars, 2) \cup EdgeInputs))
    \cup (GroupingArgs \X GroupingInputs)

\* Arguments a construction rejects, each the default arguments but for one.
WiringRepeated == [ROTORS.I EXCEPT ![2] = "E"]
Reflector24 == SubSeq(REFLECTORS.B, 1, 35)

InvalidArgs ==
    {[DefaultArgs EXCEPT !.rotor1str = WiringRepeated],
     [DefaultArgs EXCEPT !.rotor2str = SubSeq(ROTORS.II, 1, 25)],
     [DefaultArgs EXCEPT !.rotor3str = [ROTORS.I EXCEPT ![7] = "d"]],
     [DefaultArgs EXCEPT !.rotor1str = ROTORS.III \o <<"W">>],
     [DefaultArgs EXCEPT !.rotor2str = SubSeq(ROTORS.II, 1, 27) \o <<"1">>],
     [DefaultArgs EXCEPT !.rotor1ring = <<>>],
     [DefaultArgs EXCEPT !.rotor2ring = <<"A", "B">>],
     [DefaultArgs EXCEPT !.rotor3ring = <<"a">>],
     [DefaultArgs EXCEPT !.rotor1pos = <<>>],
     [DefaultArgs EXCEPT !.rotor3pos = <<"1">>],
     [DefaultArgs EXCEPT !.rotor1str = <<>>],
     [DefaultArgs EXCEPT !.rotor2str = <<>>],
     [DefaultArgs EXCEPT !.rotor3str = <<>>],
     [DefaultArgs EXCEPT !.rotor4str = WiringRepeated],
     [DefaultArgs EXCEPT !.rotor4str = ROTORS.Beta, !.rotor4pos = <<"A", "A">>],
     [DefaultArgs EXCEPT !.reflectorstr = Reflector24],
     [DefaultArgs EXCEPT !.reflectorstr = <<>>],
     [DefaultArgs EXCEPT !.reflectorstr = [REFLECTORS.B EXCEPT ![38] = "A"]],
     [DefaultArgs EXCEPT !.reflectorstr = [REFLECTORS.B EXCEPT ![2] = "A"]],
     [DefaultArgs EXCEPT !.reflectorstr = REFLECTORS.B \o <<" ">>],
     [DefaultArgs EXCEPT !.plugboardstr = <<"A","B"," ","A","C">>],
     [DefaultArgs EXCEPT !.plugboardstr = <<"A","B"," ","C","B">>],
     [DefaultArgs EXCEPT !.plugboardstr = <<"A","A">>],
     [DefaultArgs EXCEPT !.plugboardstr = <<"a","b">>],
     [DefaultArgs EXCEPT !.plugboardstr = <<"A","B","C">>],
     [DefaultArgs EXCEPT !.plugboardstr = <<" ","A","B">>],
     [DefaultArgs EXCEPT !.rotor1str = WiringRepeated, !.reflectorstr = Reflector24,
                         !.plugboardstr = <<"A","B"," ","A","C">>]}

\* Arguments that look unusual and are accepted: a second "<" in a rotor
\* string (split("<", 2) drops what follows it), white space of several
\* characters between pairs.
OddArgs ==
    {[DefaultArgs EXCEPT !.rotor1str = ROTORS.III \o <<"<", "1">>],
     [DefaultArgs EXCEPT !.plugboardstr = PlugWide, !.removeOther = FALSE]}

OtherInputs == {<<>>, <<"A", "1", "B">>, <<"a", "<", "Z", " ", "b", "1", "c">>}

\* The cases the model runs: arguments and an input.
RunCases ==
    (GeneralArgs \X GeneralInputs)
    \cup (EdgeArgs \X EdgeInputs)
    \cup (SteppingArgs \X SteppingInputs)
    \cup (VectorArgs \X VectorInputs)
    \cup (CadenceArgs \X CadenceInputs)
    \cup (GroupingArgs \X GroupingInputs)
    \cup ((InvalidArgs \cup OddArgs) \X OtherInputs)

\* ------------------------------------------------------------------------
\* Specification of the operation
\* ------------------------------------------------------------------------

Init ==
    /\ \E c \in RunCases : args = c[1] /\ input = c[2]
    /\ runNo = 1
    /\ pc = "start"
    /\ error = ""
    /\ rotors = <<>>
    /\ reflector = <<>>
    /\ plugboard = <<>>
    /\ text = <<>>
    /\ pos = 0
    /\ result = <<>>
    /\ output = <<>>
    /\ stepLog = <<>>
    /\ calls = <<>>
    /\ unit = <<>>
    /\ built = <<>>

Next ==
    \/ Run
    \/ CryptOther
    \/ CryptLetter
    \/ RunReturn
    \/ RunAgain
    \/ \E y \in MoreInputs : <<args, input>> \in SessionCases /\ CryptMore(y)
    \/ CryptReturn
    \/ RunFresh
    \/ <<args, input>> \in StripCases /\ RunOther

Spec == Init /\ [][Next]_vars

\* ------------------------------------------------------------------------
\* Specification of the constructors alone
\* ------------------------------------------------------------------------

\* The characters of the pair strings enumerated exhaustively.
PairChars == {"A", "B", "C", " ", "a"}

\* Pair strings: the short ones, the catalog's reflectors, reflector B with
\* one character replaced, cut after a pair, or with white space added.
PairStrs ==
    StringsUpTo(PairChars, MaxPairLen)
    \cup {REFLECTORS.B, REFLECTORS.C, REFLECTORS.BThin, REFLECTORS.CThin}
    \cup {[REFLECTORS.B EXCEPT ![k] = c] :
            k \in 1..Len(REFLECTORS.B), c \in {"A", "W", " ", "\t", "a", "1"}}
    \cup {SubSeq(REFLECTORS.B, 1, 3 * n - 1) : n \in 1..12}
    \cup {REFLECTORS.C \o <<" ">>, <<"\t">> \o REFLECTORS.C, PlugABCZ, PlugWide,
          REFLECTORS.C \o <<" ", "A", "B">>}

\* Rotor wirings: the catalog's, wiring I with one letter replaced, and
\* wirings of other lengths.
Wirings ==
    {SubSeq(ROTORS.I, 1, 26), SubSeq(ROTORS.II, 1, 26), SubSeq(ROTORS.VIII, 1, 26),
     ROTORS.Beta, ROTORS.Gamma, LETTERS}
    \cup {[ROTORS.Gamma EXCEPT ![k] = c] :
            k \in {1, 2, 13, 26}, c \in {"F", "D", "A", "z", "1", " "}}
    \cup {<<>>, SubSeq(ROTORS.Beta, 1, 25), ROTORS.Beta \o <<"A">>, ROTORS.I}

\* Stepping points: none, one, two, all 26, 27, a repeated letter, other
\* characters.
StepStrs ==
    {<<>>, <<"R">>, <<"A", "N">>, <<"N", "A">>, LETTERS, LETTERS \o <<"A">>,
     <<"R", "R">>, <<"A", "N", "A">>, <<"r">>, <<"A", "1">>, <<" ">>}

\* Ring settings and initial positions.
RingStrs == {<<"A">>, <<"B">>, <<"Z">>, <<>>, <<"A", "B">>, <<"a">>, <<"1">>}

\* Rotor lists a machine is constructed from, of 0 to 5 rotors: the first
\* two rotors one step before a carry, and at rest.
MachineRotors ==
    {<<Rotor(SubSeq(ROTORS.III, 1, 26), <<"W">>, <<"A">>, p[1]).obj,
       Rotor(SubSeq(ROTORS.II, 1, 26), <<"F">>, <<"A">>, p[2]).obj,
       Rotor(SubSeq(ROTORS.I, 1, 26), <<"R">>, <<"A">>, <<"Q">>).obj,
       Rotor(ROTORS.Beta, <<"A", "B">>, <<"A">>, <<"A">>).obj,
       Rotor(ROTORS.Gamma, <<>>, <<"A">>, <<"A">>).obj>> :
        p \in {<<<<"V">>, <<"E">>>>, <<<<"A">>, <<"D">>>>, <<<<"A">>, <<"A">>>>}}

MachineKinds == {"EnigmaBase", "EnigmaMachine"}

MachineCases ==
    {[kind |-> k, rotors |-> SubSeq(rs, 1, n),
      reflector |-> Reflector(REFLECTORS.B).obj,
      plugboard |-> Plugboard(PlugABCZ).obj] :
        k \in MachineKinds, rs \in MachineRotors, n \in 0..5}

UnitCases ==
    {[kind |-> "Rotor", wiring |-> w, steps |-> s, ringSetting |-> r,
      initialPosition |-> p] :
        w \in Wirings, s \in StepStrs, r \in RingStrs, p \in RingStrs}
    \cup {[kind |-> k, pairs |-> s] : k \in {"Plugboard", "Reflector"}, s \in PairStrs}
    \cup MachineCases

InitParts ==
    /\ unit \in UnitCases
    /\ built = <<>>
    /\ pc = "unit"
    /\ args = <<>>
    /\ input = <<>>
    /\ runNo = 0
    /\ error = ""
    /\ rotors = <<>>
    /\ reflector = <<>>
    /\ plugboard = <<>>
    /\ text = <<>>
    /\ pos = 0
    /\ result = <<>>
    /\ output = <<>>
    /\ stepLog = <<>>
    /\ calls = <<>>

runVars == <<args, input, runNo, error, rotors, reflector, plugboard, text, pos,
         result, output, stepLog, calls>>

\* new Rotor(wiring, steps, ringSetting, initialPosition)
NewRotor ==
    /\ pc = "unit"
    /\ unit.kind = "Rotor"
    /\ built' = Rotor(unit.wiring, unit.steps, unit.ringSetting, unit.initialPosition)
    /\ pc' = "built"
    /\ UNCHANGED <<unit, runVars>>

\* new Plugboard(pairs)
NewPlugboard ==
    /\ pc = "unit"
    /\ unit.kind = "Plugboard"
    /\ built' = Plugboard(unit.pairs)
    /\ pc' = "built"
    /\ UNCHANGED <<unit, runVars>>

\* new Reflector(pairs)
NewReflector ==
    /\ pc = "unit"
    /\ unit.kind = "Reflector"
    /\ built' = Reflector(unit.pairs)
    /\ pc' = "built"
    /\ UNCHANGED <<unit, runVars>>

\* new EnigmaBase(rotors, reflector, plugboard)
NewEnigmaBase ==
    /\ pc = "unit"
    /\ unit.kind = "EnigmaBase"
    /\ built' = EnigmaBase(unit.rotors, unit.reflector, unit.plugboard)
    /\ pc' = "built"
    /\ UNCHANGED <<unit, runVars>>

\* new EnigmaMachine(rotors, reflector, plugboard)
NewEnigmaMachine ==
    /\ pc = "unit"
    /\ unit.kind = "EnigmaMachine"
    /\ built' = EnigmaMachine(unit.rotors, unit.reflector, unit.plugboard)
    /\ pc' = "built"
    /\ UNCHANGED <<unit, runVars>>

\* step() on a machine that was constructed, at most MaxLen times: it ends
\* in a TypeError when it reads a rotor the machine does not have.
MachineStep ==
    /\ pc = "built"
    /\ unit.kind \in MachineKinds
    /\ built.err = ""
    /\ Len(stepLog) < MaxLen
    /\ IF StepThrows(built.obj.rotors)
       THEN /\ built' = [built EXCEPT !.obj.rotors = StepBeforeThrow(@)]
            /\ pc' = "error"
            /\ error' = "TypeError"
            /\ UNCHANGED stepLog
       ELSE /\ built' = [built EXCEPT !.obj.rotors = EnigmaStep(@)]
            /\ stepLog' = Append(stepLog, Positions(EnigmaStep(built.obj.rotors)))
            /\ UNCHANGED <<pc, error>>
    /\ UNCHANGED <<unit, args, input, runNo, rotors, reflector, plugboard, text,
                   pos, result, output, calls>>

NextParts ==
    \/ NewRotor
    \/ NewPlugboard
    \/ NewReflector
    \/ NewEnigmaBase
    \/ NewEnigmaMachine
    \/ MachineStep

SpecParts == InitParts /\ [][NextParts]_vars

\* ------------------------------------------------------------------------
\* Specification of the operation and of the constructors
\* ------------------------------------------------------------------------

InitAll == Init \/ InitParts

NextAll == Next \/ NextParts

SpecAll == InitAll /\ [][NextAll]_vars

\* ------------------------------------------------------------------------
\* Properties
\* ------------------------------------------------------------------------

\* A character's code is that of a letter.
LetterChar(c) == ord(c) \in (65..90) \cup (97..122)

\* The uppercase letters.
UpperChar(c) == ord(c) \in 65..90

\* s with every letter in upper case, every other character as it is.
UpperCased(s) ==
    [k \in 1..Len(s) |-> IF ord(s[k]) \in 97..122 THEN LETTERS[ord(s[k]) - 96] ELSE s[k]]

\* The number of letters among the first n characters of s.
LettersIn(s, n) == Cardinality({k \in 1..n : LetterChar(s[k])})

\* C1 (round trip): when crypt has returned c for the input s on the first
\* machine, and r for the input c on a second machine freshly constructed
\* from the same arguments, r is s with every letter in upper case and every
\* other character unchanged at the same index.
C1_RoundTrip ==
    (runNo = 2 /\ Len(calls) = 2 /\ calls[2].input = calls[1].result)
        => calls[2].result = UpperCased(calls[1].input)

\* A round trip of a four-rotor machine with plugs, on an input holding a
\* lowercase letter and a digit, whose cipher text differs from the input.
C1_Witness ==
    /\ runNo = 2
    /\ Len(calls) = 2
    /\ calls[2].input = calls[1].result
    /\ Len(rotors) = 4
    /\ DOMAIN plugboard # {}
    /\ \E k \in 1..Len(calls[1].input) : calls[1].input[k] = "z"
    /\ \E k \in 1..Len(calls[1].input) : calls[1].input[k] = "1"
    /\ calls[1].result # UpperCased(calls[1].input)
    /\ calls[2].result = UpperCased(calls[1].input)

AAAAA == <<"A", "A", "A", "A", "A">>
BDZGO == <<"B", "D", "Z", "G", "O">>

\* The first call of run has returned, for the rotors w0, w1, w2 (catalog
\* strings) at indices 0, 1, 2, reflector B, all ring settings and initial
\* positions A, no plugs and the input AAAAA.
VectorDone(w0, w1, w2) ==
    /\ pc = "done"
    /\ runNo = 1
    /\ args.rotor1str = w0 /\ args.rotor2str = w1 /\ args.rotor3str = w2
    /\ args.rotor4str = <<>>
    /\ args.rotor1ring = <<"A">> /\ args.rotor2ring = <<"A">> /\ args.rotor3ring = <<"A">>
    /\ args.rotor1pos = <<"A">> /\ args.rotor2pos = <<"A">> /\ args.rotor3pos = <<"A">>
    /\ args.reflectorstr = REFLECTORS.B
    /\ args.plugboardstr = <<>>
    /\ input = AAAAA

\* C2 as stated (known test vector): with rotor I at index 0 (the
\* right-hand rotor), II at index 1 and III at index 2, AAAAA is enciphered
\* to BDZGO.
C2_Original == VectorDone(ROTORS.I, ROTORS.II, ROTORS.III) => result = BDZGO

\* C2 amended: with rotor III at index 0 (the right-hand rotor), II at index
\* 1 and I at index 2, that is I, II, III from left to right, AAAAA is
\* enciphered to BDZGO.
C2_Vector ==
    VectorDone(ROTORS.III, ROTORS.II, ROTORS.I) => result = BDZGO /\ output = BDZGO

C2_Witness == VectorDone(ROTORS.III, ROTORS.II, ROTORS.I) /\ output = BDZGO

\* The machine is at the positions of stepLog[k] and two more letters have
\* been processed since.
TwoLettersFrom(k) == k >= 1 /\ k + 2 <= Len(stepLog)

\* From stepLog[k] on, the next two letters advanced rotor 1 once each and
\* rotor 2 once in all.
DoubleStepFrom(k) ==
    /\ stepLog[k + 1][2] = (stepLog[k][2] + 1) % 26
    /\ stepLog[k + 2][2] = (stepLog[k][2] + 2) % 26
    /\ \/ stepLog[k + 1][3] = (stepLog[k][3] + 1) % 26 /\ stepLog[k + 2][3] = stepLog[k + 1][3]
       \/ stepLog[k + 1][3] = stepLog[k][3] /\ stepLog[k + 2][3] = (stepLog[k][3] + 1) % 26

\* C3 as stated (double-stepping anomaly): from a state where rotor 1's
\* position is in rotor 1's notch set and rotor 0's position plus one is in
\* rotor 0's notch set, two consecutive letters advance rotor 1 twice (once
\* on each letter) and rotor 2 exactly once.
C3_Original ==
    \A k \in 1..Len(stepLog) :
        (/\ TwoLettersFrom(k)
         /\ stepLog[k][2] \in rotors[2].steps
         /\ (stepLog[k][1] + 1) % 26 \in rotors[1].steps)
            => DoubleStepFrom(k)

\* The state C3 amended is about: rotor 1 is two positions before one of
\* its notch positions and not one position before one, and rotor 0 is one
\* position before one of its own.
BeforeDoubleStep(k) ==
    /\ (stepLog[k][2] + 2) % 26 \in rotors[2].steps
    /\ (stepLog[k][2] + 1) % 26 \notin rotors[2].steps
    /\ (stepLog[k][1] + 1) % 26 \in rotors[1].steps

\* C3 amended: from a state where rotor 1's position plus two is in rotor
\* 1's notch set, rotor 1's position plus one is not, and rotor 0's position
\* plus one is in rotor 0's notch set, two consecutive letters advance rotor
\* 1 twice (once on each letter) and rotor 2 exactly once (on the second).
C3_DoubleStep ==
    \A k \in 1..Len(stepLog) :
        (TwoLettersFrom(k) /\ BeforeDoubleStep(k))
            => /\ DoubleStepFrom(k)
               /\ stepLog[k + 1][3] = stepLog[k][3]

\* Two letters have been processed from such a state, with rotor 0 not at a
\* notch position after the second: only rotor 1's own notch moved it.
C3_Witness ==
    \E k \in 1..Len(stepLog) :
        /\ TwoLettersFrom(k)
        /\ BeforeDoubleStep(k)
        /\ stepLog[k + 2][1] \notin rotors[1].steps
        /\ stepLog[k + 2][3] = (stepLog[k][3] + 1) % 26

\* C4 (non-letter passthrough): in crypt, every character consumed that is
\* neither A-Z nor a-z stands unchanged at its index of the result, step()
\* has been called once per letter consumed and not otherwise, and the rotor
\* positions are those the last step() left.
C4_Passthrough ==
    pc \in {"crypt", "done"} =>
        /\ Len(result) = pos
        /\ \A k \in 1..pos : ~LetterChar(text[k]) => result[k] = text[k]
        /\ Len(stepLog) - 1 = LettersIn(text, pos)
        /\ Positions(rotors) = stepLog[Len(stepLog)]

A1B == <<"A", "1", "B">>

\* crypt has returned for the input A1B: three characters, the middle one
\* the digit, after two steps.
C4_Witness ==
    /\ pc = "done"
    /\ text = A1B
    /\ Len(result) = 3
    /\ result[2] = "1"
    /\ calls[Len(calls)].steps = 2
    /\ stepLog[3] # stepLog[1]

NoNotch == \A j \in 1..Len(rotors) : rotors[j].steps = {}

\* C6 (rotor cadence): after k letters rotor 0 is k positions (modulo 26)
\* past its position at construction, so that from position 0 it is back at
\* 0 after 26 letters and not before; and when no rotor has a notch no other
\* rotor has moved.
C6_Cadence ==
    \A k \in 1..Len(stepLog) :
        /\ stepLog[k][1] = (stepLog[1][1] + (k - 1)) % 26
        /\ stepLog[k][1] \in 0..25
        /\ (stepLog[1][1] = 0 /\ k \in 2..26) => stepLog[k][1] # 0
        /\ (stepLog[1][1] = 0 /\ k = 27) => stepLog[k][1] = 0
        /\ NoNotch => \A j \in 2..Len(rotors) : stepLog[k][j] = stepLog[1][j]

\* 26 letters have been processed from position 0 by a machine without
\* notches, and rotor 0 is back at 0.
C6_Witness ==
    /\ Len(stepLog) = 27
    /\ NoNotch
    /\ stepLog[1][1] = 0
    /\ stepLog[27][1] = 0
    /\ stepLog[14][1] = 13

\* The letters (as indices 0..25) a pair string mentions.
LettersOfPairs(pairs) ==
    {ord(pairs[k]) - 65 : k \in {j \in 1..Len(pairs) : UpperChar(pairs[j])}}

\* C7 (pair-substitution involution): for a constructed Plugboard or
\* Reflector and every c in 0..25, transform(transform(c)) = c and
\* revTransform(c) = transform(c); a Plugboard fixes exactly the letters that
\* are in no pair, a Reflector fixes none.
C7_Involution ==
    (pc = "built" /\ unit.kind \in {"Plugboard", "Reflector"} /\ built.err = "") =>
        \A c \in 0..25 :
            /\ PairTransform(built.obj, c) \in 0..25
            /\ PairTransform(built.obj, PairTransform(built.obj, c)) = c
            /\ PairRevTransform(built.obj, c) = PairTransform(built.obj, c)
            /\ unit.kind = "Plugboard" =>
                (PairTransform(built.obj, c) = c <=> c \notin LettersOfPairs(unit.pairs))
            /\ unit.kind = "Reflector" => PairTransform(built.obj, c) # c

\* A plugboard that swaps A with Z and B with Y and leaves C alone.
C7_Witness ==
    /\ pc = "built"
    /\ unit.kind = "Plugboard"
    /\ built.err = ""
    /\ PairTransform(built.obj, 0) = 25
    /\ PairTransform(built.obj, 24) = 1
    /\ PairTransform(built.obj, 2) = 2

\* s is lo to hi uppercase letters.
UpperStr(s, lo, hi) ==
    Len(s) \in lo..hi /\ \A k \in 1..Len(s) : UpperChar(s[k])

\* Some character stands at two indices of s: s has fewer characters than
\* indices.
Repeats(s) == Cardinality({s[k] : k \in 1..Len(s)}) < Len(s)

\* The arguments C8 says Rotor rejects.
BadRotorArgs(wiring, steps, ringSetting, initialPosition) ==
    \/ ~UpperStr(wiring, 26, 26)
    \/ Repeats(wiring)
    \/ ~UpperStr(steps, 0, 26)
    \/ Repeats(steps)
    \/ ~UpperStr(ringSetting, 1, 1)
    \/ ~UpperStr(initialPosition, 1, 1)

\* C8 (rotor construction validation): Rotor throws, and yields no rotor,
\* exactly when the wiring is not 26 uppercase letters, or repeats a letter,
\* or steps is not 0 to 26 uppercase letters, or repeats a letter, or the
\* ring setting or the initial position is not one uppercase letter; the
\* map of a constructed rotor is a bijection on 0..25 and revMap its inverse.
C8_RotorValidation ==
    (pc = "built" /\ unit.kind = "Rotor") =>
        /\ built.err # "" <=>
            BadRotorArgs(unit.wiring, unit.steps, unit.ringSetting, unit.initialPosition)
        /\ built.err # "" => built.obj = <<>>
        /\ built.err = "" =>
            /\ DOMAIN built.obj.map = 0..25
            /\ DOMAIN built.obj.revMap = 0..25
            /\ \A i \in 0..25 : built.obj.map[i] \in 0..25
            /\ \A i, j \in 0..25 : built.obj.map[i] = built.obj.map[j] => i = j
            /\ \A i \in 0..25 : built.obj.revMap[built.obj.map[i]] = i
            /\ built.obj.pos \in 0..25
            /\ built.obj.steps \subseteq 0..25

\* A rotor constructed with two stepping points and ring setting B, whose
\* wiring is not the identity.
C8_Witness ==
    /\ pc = "built"
    /\ unit.kind = "Rotor"
    /\ built.err = ""
    /\ unit.ringSetting = <<"B">>
    /\ Cardinality(built.obj.steps) = 2
    /\ built.obj.map[0] # 0

\* The pieces of a pair string ("tokens"): what split(/\s+/) yields, so that
\* a string that starts or ends with white space has an empty piece there.
Tokens(pairs) == IF pairs = <<>> THEN <<>> ELSE Split(pairs)

\* The characters of a token.
CharsOf(tok) == {tok[k] : k \in 1..Len(tok)}

\* The pair strings C9 says PairMapBase rejects: a token is not two
\* uppercase letters, or is one letter twice, or shares a letter with an
\* earlier token.
BadPairs(pairs) ==
    LET toks == Tokens(pairs) IN
    \E k \in 1..Len(toks) :
        \/ ~UpperStr(toks[k], 2, 2)
        \/ toks[k][1] = toks[k][2]
        \/ \E j \in 1..(k - 1) : CharsOf(toks[k]) \cap CharsOf(toks[j]) # {}

BadRotorSpec(s) ==
    \/ s.str = <<>>
    \/ LET parts == ParseRotorStr(s.str)
       IN  BadRotorArgs(parts[1], parts[2], s.ring, s.pos)

\* The arguments of run for which a construction fails.
BadArgs(a) ==
    LET specs == RotorSpecs(a) IN
    \/ \E k \in 1..Len(specs) : BadRotorSpec(specs[k])
    \/ BadPairs(a.reflectorstr)
    \/ Cardinality(LettersOfPairs(a.reflectorstr)) # 26
    \/ BadPairs(a.plugboardstr)

\* C10 (construction errors precede all processing): when a rotor, the
\* reflector or the plugboard of the arguments fails validation, the
\* operation ends with an error: crypt is never entered, no character is
\* processed, no rotor is stepped and nothing is returned.
C10_ErrorsFirst ==
    LET bad == BadArgs(args) IN
    /\ bad =>
        /\ pc \in {"start", "error"}
        /\ pc = "error" => error # ""
    /\ (pc = "error" \/ bad) =>
        /\ rotors = <<>>
        /\ stepLog = <<>>
        /\ calls = <<>>
        /\ pos = 0
        /\ result = <<>>
        /\ output = <<>>

\* run has ended with an error for a plugboard that uses A in two pairs,
\* the rotors and the reflector being valid, on an input with letters.
C10_Witness ==
    /\ pc = "error"
    /\ args.plugboardstr = <<"A", "B", " ", "A", "C">>
    /\ ~BadPairs(args.reflectorstr)
    /\ Cardinality(LettersOfPairs(args.reflectorstr)) = 26
    /\ input = A1B
    /\ output = <<>>

\* The state is one of the constructor harness, after the constructor call.
Constructed == runNo = 0 /\ pc \in {"built", "error"}

\* C11 as stated, for the machine classes: every machine that was
\* constructed, so that step() and crypt() can be called on it, has 3 or 4
\* rotors.
C11_Original ==
    (Constructed /\ unit.kind \in MachineKinds /\ built.err = "") =>
        Len(built.obj.rotors) \in {3, 4}

\* C11 (rotor count), amended: an EnigmaMachine is constructed exactly from
\* 3 or 4 rotors and any other number yields an error and no machine, while
\* the base class EnigmaBase of lib, which has step() and crypt(), accepts a
\* rotor list of any length; through run the machine has 4 rotors exactly
\* when the 4th rotor string is not empty, the 4th with ring setting A, and
\* 3 otherwise, and an empty string for rotor 1, 2 or 3 ends run in an error.
C11_RotorCount ==
    /\ (Constructed /\ unit.kind = "EnigmaMachine") =>
        /\ built.err # "" <=> Len(unit.rotors) \notin {3, 4}
        /\ built.err # "" => (built.obj = <<>> /\ stepLog = <<>>)
        /\ built.err = "" => Len(built.obj.rotors) = Len(unit.rotors)
    /\ (Constructed /\ unit.kind = "EnigmaBase") =>
        (built.err = "" /\ Len(built.obj.rotors) = Len(unit.rotors))
    /\ (runNo > 0 /\ pc \in {"crypt", "done"}) =>
        /\ Len(rotors) = IF args.rotor4str # <<>> THEN 4 ELSE 3
        /\ Len(rotors) = 4 =>
            /\ rotors[4].pos = ord(args.rotor4pos[1]) - 65
            /\ rotors[4].steps =
                    {ord(c) - 65 : c \in CharsOf(ParseRotorStr(args.rotor4str)[2])}
    /\ (runNo > 0 /\ pc # "start"
            /\ <<>> \in {args.rotor1str, args.rotor2str, args.rotor3str}) =>
        (pc = "error" /\ error # "" /\ rotors = <<>>)

\* An EnigmaMachine was refused for its 5 rotors.
C11_Witness ==
    /\ Constructed
    /\ unit.kind = "EnigmaMachine"
    /\ Len(unit.rotors) = 5
    /\ built.err = "Enigma must have 3 or 4 rotors"

\* C12 (grouping): when run returns with stripping enabled, the result of
\* crypt is the n cipher letters, n the number of letters of the input, and
\* the output is these letters in groups of 5 separated by single spaces:
\* every 6th character is a space, the others are the letters in order, and
\* the last group holds the remaining 1 to 5 letters, so that no space
\* starts or ends the output.
C12_Grouping ==
    (runNo > 0 /\ pc = "done" /\ Len(calls) = runNo /\ args.removeOther) =>
        LET n == Len(result) IN
        /\ n = LettersIn(input, Len(input))
        /\ \A k \in 1..n : UpperChar(result[k])
        /\ Len(output) = IF n = 0 THEN 0 ELSE n + ((n - 1) \div 5)
        /\ \A k \in 1..Len(output) :
            IF k % 6 = 0 THEN output[k] = " "
            ELSE output[k] = result[k - (k \div 6)]
        /\ output # <<>> => (output[1] # " " /\ output[Len(output)] # " ")

\* run has returned 12 cipher letters as XXXXX XXXXX XX.
C12_Witness ==
    /\ runNo > 0
    /\ pc = "done"
    /\ args.removeOther
    /\ Len(result) = 12
    /\ Len(output) = 14
    /\ output[6] = " "
    /\ output[12] = " "
    /\ output[14] # " "

\* The steps a machine of run has logged: k is the index in stepLog of the
\* positions before a step().
LoggedSteps ==
    IF runNo > 0 /\ pc \in {"crypt", "done"} THEN 1..(Len(stepLog) - 1) ELSE {}

\* Rotor 1 is to advance at logged step k: rotor 0's position after its
\* advance is in rotor 0's notch set, or rotor 1's position before the step
\* plus one is in rotor 1's.
Rotor1Due(k) ==
    \/ stepLog[k + 1][1] \in rotors[1].steps
    \/ (stepLog[k][2] + 1) % 26 \in rotors[2].steps

\* C13 (rotor 1 stepping rule): at every step() rotor 1 advances by one
\* position when rotor 0's new position is in rotor 0's notch set or rotor
\* 1's old position plus one is in its own, and keeps its position otherwise.
C13_Rotor1Rule ==
    \A k \in LoggedSteps :
        stepLog[k + 1][2] =
            IF Rotor1Due(k) THEN (stepLog[k][2] + 1) % 26 ELSE stepLog[k][2]

\* Rotor 1 has advanced for its own notch only, has advanced for rotor 0's
\* notch only, and has stayed.
C13_Witness ==
    /\ \E k \in LoggedSteps :
          /\ stepLog[k + 1][1] \notin rotors[1].steps
          /\ (stepLog[k][2] + 1) % 26 \in rotors[2].steps
          /\ stepLog[k + 1][2] = (stepLog[k][2] + 1) % 26
    /\ \E k \in LoggedSteps :
          /\ stepLog[k + 1][1] \in rotors[1].steps
          /\ (stepLog[k][2] + 1) % 26 \notin rotors[2].steps
          /\ stepLog[k + 1][2] = (stepLog[k][2] + 1) % 26
    /\ \E k \in LoggedSteps : stepLog[k + 1][2] = stepLog[k][2]

\* Rotor 2 is to advance at logged step k: rotor 1 advanced at it and rotor
\* 1's new position is in rotor 1's notch set.
Rotor2Due(k) ==
    /\ stepLog[k + 1][2] # stepLog[k][2]
    /\ stepLog[k + 1][2] \in rotors[2].steps

\* C14 (rotor 2 stepping rule): at every step() rotor 2 advances by one
\* position when rotor 1 advanced and its new position is in rotor 1's
\* notch set, and keeps its position otherwise, wherever rotor 2 stands
\* with respect to its own notches; a rotor after rotor 2 keeps its
\* position, and no rotor advances by more than one position.
C14_Rotor2Rule ==
    \A k \in LoggedSteps :
        /\ stepLog[k + 1][3] =
                IF Rotor2Due(k) THEN (stepLog[k][3] + 1) % 26 ELSE stepLog[k][3]
        /\ \A j \in 1..Len(rotors) :
                stepLog[k + 1][j] \in {stepLog[k][j], (stepLog[k][j] + 1) % 26}
        /\ \A j \in 4..Len(rotors) : stepLog[k + 1][j] = stepLog[k][j]

\* Rotor 2 has advanced onto a position of its own notch set, in front of a
\* fourth rotor, and at the next step, where rotor 1 did not carry, no rotor
\* moved for it.
C14_Witness ==
    /\ Len(rotors) = 4
    /\ \E k \in LoggedSteps :
          /\ k + 1 \in LoggedSteps
          /\ stepLog[k + 1][3] = (stepLog[k][3] + 1) % 26
          /\ stepLog[k + 1][3] \in rotors[3].steps
          /\ ~Rotor2Due(k + 1)
          /\ stepLog[k + 2][3] = stepLog[k + 1][3]
          /\ stepLog[k + 2][4] = stepLog[k][4]

\* C15 (the fourth rotor is fixed): in a machine of four rotors rotor 3 is,
\* at every point of every call of crypt, at the position it was constructed
\* with (its initial position, the ring setting of a fourth rotor being A),
\* whatever the notches of rotor 2 and rotor 3.
C15_FourthFixed ==
    (runNo > 0 /\ pc \in {"crypt", "done"} /\ Len(rotors) = 4) =>
        /\ rotors[4].pos = ord(args.rotor4pos[1]) - 65
        /\ \A k \in 1..Len(stepLog) : stepLog[k][4] = ord(args.rotor4pos[1]) - 65

\* Three letters were processed by a machine of four rotors whose rotor 2
\* stands in its notch set after a step and whose rotor 3 has notches.
C15_Witness ==
    /\ runNo > 0
    /\ pc = "done"
    /\ Len(rotors) = 4
    /\ Len(stepLog) = 4
    /\ rotors[4].steps # {}
    /\ stepLog[2][3] # stepLog[1][3]
    /\ rotors[3].pos \in rotors[3].steps
    /\ rotors[4].pos = ord(args.rotor4pos[1]) - 65

\* The index of a letter, upper or lower case.
LetterIndex(c) == IF UpperChar(c) THEN ord(c) - 65 ELSE ord(c) - 97

\* Rotor j of the machine at the positions p.
RotorAt(j, p) == [rotors[j] EXCEPT !.pos = p[j]]

\* P(R0^-1(... Rn^-1(Ref(Rn(... R0(P(x))))))) at the rotor positions p, for
\* the machine's 3 or 4 rotors.
SignalPath(p, x) ==
    LET a0 == PairTransform(plugboard, x)
        a1 == RotorTransform(RotorAt(1, p), a0)
        a2 == RotorTransform(RotorAt(2, p), a1)
        a3 == RotorTransform(RotorAt(3, p), a2)
        a4 == IF Len(rotors) = 4 THEN RotorTransform(RotorAt(4, p), a3) ELSE a3
        b  == PairTransform(reflector, a4)
        b4 == IF Len(rotors) = 4 THEN RotorRevTransform(RotorAt(4, p), b) ELSE b
        b3 == RotorRevTransform(RotorAt(3, p), b4)
        b2 == RotorRevTransform(RotorAt(2, p), b3)
        b1 == RotorRevTransform(RotorAt(1, p), b2)
    IN  PairTransform(plugboard, b1)

\* C16 (signal path): the character crypt has put out for a letter, upper or
\* lower case, is the uppercase letter of P(R0^-1(... Rn^-1(Ref(Rn(... R0(
\* P(x))))))), x the index of the letter whatever its case, the rotors being
\* at the positions the step() for that letter left them at.
C16_SignalPath ==
    (runNo > 0 /\ pc \in {"crypt", "done"}) =>
        \A k \in 1..Len(result) :
            LetterChar(text[k]) =>
                result[k] =
                    LETTERS[1 + SignalPath(stepLog[1 + LettersIn(text, k)],
                                           LetterIndex(text[k]))]

\* A lowercase letter went through plugs, four rotors away from position 0
\* and back, after an uppercase letter.
C16_Witness ==
    /\ runNo = 1
    /\ pc = "done"
    /\ Len(rotors) = 4
    /\ Len(result) >= 2
    /\ UpperChar(text[1])
    /\ ord(text[2]) \in 97..122
    /\ UpperChar(result[2])
    /\ DOMAIN plugboard # {}
    /\ \A j \in 1..4 : rotors[j].pos # 0

\* The rotor run constructs from a rotor specification: its wiring as a map,
\* the inverse of the map, its stepping points less the ring setting.
WiringMap(s) ==
    LET wiring == ParseRotorStr(s.str)[1] IN [i \in 0..25 |-> ord(wiring[i + 1]) - 65]

NotchSet(s) ==
    {(ord(c) - ord(s.ring[1]) + 26) % 26 : c \in CharsOf(ParseRotorStr(s.str)[2])}

\* The letter paired with the letter of index c in the pairs toks.
Partner(toks, c) ==
    LET t == toks[CHOOSE k \in 1..Len(toks) : LETTERS[c + 1] \in CharsOf(toks[k])]
    IN  ord(IF t[1] = LETTERS[c + 1] THEN t[2] ELSE t[1]) - 65

\* map is the map of a pair string.
MapOfPairs(map, pairs) ==
    LET toks == Tokens(pairs) IN
    /\ DOMAIN map = LettersOfPairs(pairs)
    /\ \A c \in DOMAIN map : map[c] = Partner(toks, c)

\* C17 (state invariant): from the construction of the machine on, through
\* every character of every call of crypt, every rotor's position is in
\* 0..25 and is the one the last step() left (the one at construction before
\* any step), and the rotors in their order, with map, revMap and notch set,
\* the reflector map and the plugboard map are what the arguments define.
C17_StateInvariant ==
    (runNo > 0 /\ pc \in {"crypt", "done"}) =>
        LET specs == RotorSpecs(args) IN
        /\ Len(rotors) = Len(specs)
        /\ \A k \in 1..Len(rotors) :
            /\ rotors[k].pos \in 0..25
            /\ rotors[k].pos = stepLog[Len(stepLog)][k]
            /\ rotors[k].map = WiringMap(specs[k])
            /\ DOMAIN rotors[k].revMap = 0..25
            /\ \A i \in 0..25 : rotors[k].revMap[rotors[k].map[i]] = i
            /\ rotors[k].steps = NotchSet(specs[k])
        /\ MapOfPairs(reflector, args.reflectorstr)
        /\ MapOfPairs(plugboard, args.plugboardstr)

\* crypt has returned after steps that moved three rotors, on a machine with
\* ring settings other than A and plugs.
C17_Witness ==
    /\ runNo > 0
    /\ pc = "done"
    /\ Len(stepLog) >= 3
    /\ \A j \in 1..3 : stepLog[Len(stepLog)][j] # stepLog[1][j]
    /\ args.rotor2ring # <<"A">>
    /\ DOMAIN plugboard # {}

\* C18: crypt runs from the machine's state as it is and never resets it:
\* when crypt has been called with x and then with y on one machine, and
\* with x followed by y on a machine freshly constructed from the same
\* arguments, the result of the third call is the results of the first two,
\* one after the other, and both machines are left at the same rotor
\* positions.
C18_SessionContinuity ==
    (runNo = 4 /\ Len(calls) = 3) =>
        /\ calls[3].input = calls[1].input \o calls[2].input
        /\ calls[3].result = calls[1].result \o calls[2].result
        /\ calls[3].end = calls[2].end

\* Both machines have returned; x and y hold letters, the machine of four
\* rotors double-stepped in the second call, and is not left where it was
\* constructed.
C18_Witness ==
    /\ runNo = 4
    /\ Len(calls) = 3
    /\ Len(rotors) = 4
    /\ calls[1].steps = 3
    /\ calls[2].steps = 2
    /\ calls[1].end[2] # calls[2].end[2]
    /\ calls[1].end[3] # calls[2].end[3]
    /\ calls[3].end # stepLog[1]
    /\ calls[3].result = calls[1].result \o calls[2].result

\* Which indices of s hold a letter.
Mask(s) == {k \in 1..Len(s) : LetterChar(s[k])}

\* The rotor positions after a step() from the positions p, from p and the
\* notch sets N of the rotors alone.
NextPositions(p, N) ==
    LET p0 == (p[1] + 1) % 26
        carry1 == p0 \in N[1] \/ (p[2] + 1) % 26 \in N[2]
        p1 == IF carry1 THEN (p[2] + 1) % 26 ELSE p[2]
        carry2 == carry1 /\ p1 \in N[2]
        p2 == IF carry2 THEN (p[3] + 1) % 26 ELSE p[3]
    IN  [j \in DOMAIN p |-> IF j = 1 THEN p0 ELSE IF j = 2 THEN p1
                                ELSE IF j = 3 THEN p2 ELSE p[j]]

\* C19 (stepping is independent of the data): while crypt runs and when it
\* has returned, the rotors have stepped once for each letter consumed and
\* not for any other character, from the positions the arguments give (from
\* where the call before left them, on a kept machine), and the positions
\* after a step are those before it mapped by a function of the positions
\* and the notch sets of the arguments alone: not of the letter, the
\* plugboard or the reflector. Two calls of crypt on machines constructed
\* from the same arguments, on inputs with letters at the same indices,
\* leave the rotors at the same positions.
C19_DataIndependent ==
    /\ (runNo > 0 /\ pc \in {"crypt", "done"}) =>
            LET specs == RotorSpecs(args)
                N == [j \in 1..Len(specs) |-> NotchSet(specs[j])]
                start == [j \in 1..Len(specs) |->
                            (ord(specs[j].pos[1]) - ord(specs[j].ring[1]) + 26) % 26]
            IN  /\ Len(stepLog) = 1 + LettersIn(text, pos)
                /\ stepLog[1] = IF runNo = 3 THEN calls[1].end ELSE start
                /\ \A k \in 1..(Len(stepLog) - 1) :
                        stepLog[k + 1] = NextPositions(stepLog[k], N)
    /\ (runNo = 2 /\ Len(calls) = 2 /\ Mask(calls[1].input) = Mask(calls[2].input)) =>
            /\ calls[2].steps = calls[1].steps
            /\ calls[2].end = calls[1].end

\* Two machines of four rotors with plugs, constructed from the same
\* arguments, have consumed inputs of no common letter with letters at the
\* same indices and another character among them, and stand at the same
\* positions, which are not those of construction.
C19_Witness ==
    /\ runNo = 2
    /\ Len(calls) = 2
    /\ Len(rotors) = 4
    /\ DOMAIN plugboard # {}
    /\ Mask(calls[1].input) = Mask(calls[2].input)
    /\ Cardinality(Mask(calls[1].input)) = 2
    /\ Len(calls[1].input) = 3
    /\ \A k \in Mask(calls[1].input) :
            UpperCased(calls[1].input)[k] # UpperCased(calls[2].input)[k]
    /\ calls[2].end = calls[1].end
    /\ calls[2].end # stepLog[1]

\* The rotor r turned to the position p.
RotorAtPos(r, p) == [r EXCEPT !.pos = p]

\* C20 (the rotor's transforms are mutually inverse at every position): for
\* every rotor the constructor has yielded, at every position p in 0..25 and
\* for every c in 0..25, transform(c) and revTransform(c) are in 0..25,
\* revTransform(transform(c)) = c and transform(revTransform(c)) = c.
C20_MutuallyInverse ==
    (Constructed /\ unit.kind = "Rotor" /\ built.err = "") =>
        \A p \in 0..25 :
            LET r == RotorAtPos(built.obj, p) IN
            \A c \in 0..25 :
                /\ RotorTransform(r, c) \in 0..25
                /\ RotorRevTransform(r, c) \in 0..25
                /\ RotorRevTransform(r, RotorTransform(r, c)) = c
                /\ RotorTransform(r, RotorRevTransform(r, c)) = c

\* A rotor was constructed with ring setting B and initial position Z, whose
\* wiring is not its own inverse and moves the letter A at position 0 and
\* at position 25.
C20_Witness ==
    /\ Constructed
    /\ unit.kind = "Rotor"
    /\ built.err = ""
    /\ unit.ringSetting = <<"B">>
    /\ unit.initialPosition = <<"Z">>
    /\ built.obj.pos = 24
    /\ built.obj.map # built.obj.revMap
    /\ RotorTransform(RotorAtPos(built.obj, 0), 0) # 0
    /\ RotorTransform(RotorAtPos(built.obj, 25), 0) # 0
    /\ RotorRevTransform(RotorAtPos(built.obj, 25), 0)
            # RotorTransform(RotorAtPos(built.obj, 25), 0)

\* C21 (no letter encrypts to itself): every letter crypt has emitted for
\* an input letter differs from that letter in upper case, and in every
\* state of a constructed machine (of run, or constructed directly from 0 to
\* 5 rotors and stepped) no letter of the 26 is enciphered to itself at the
\* positions the rotors stand at.
C21_NoFixedLetter ==
    /\ (runNo > 0 /\ pc \in {"crypt", "done"}) =>
            /\ \A k \in 1..Len(result) :
                    LetterChar(text[k]) =>
                        /\ UpperChar(result[k])
                        /\ result[k] # LETTERS[1 + LetterIndex(text[k])]
            /\ \A x \in 0..25 : Encipher(rotors, reflector, plugboard, x) # x
    /\ (runNo = 0 /\ pc = "built" /\ unit.kind \in MachineKinds /\ built.err = "") =>
            \A x \in 0..25 :
                Encipher(built.obj.rotors, built.obj.reflector,
                         built.obj.plugboard, x) # x

\* crypt has returned on a machine of four rotors with plugs, for an input
\* of an uppercase letter, a lowercase letter and a digit; the rotors have
\* moved.
C21_Witness ==
    /\ runNo > 0
    /\ pc = "done"
    /\ Len(rotors) = 4
    /\ DOMAIN plugboard # {}
    /\ Len(result) = 3
    /\ \E k \in 1..3 : text[k] = "A" /\ result[k] # "A"
    /\ \E k \in 1..3 : text[k] = "z" /\ result[k] \notin {"z", "Z"}
    /\ \E k \in 1..3 : text[k] = "1" /\ result[k] = "1"
    /\ stepLog[Len(stepLog)] # stepLog[1]

\* C22 (the middle rotor's double step): whenever rotor 2 advances at the
\* k-th step() of a call of crypt, k > 1, rotor 1 advanced at that step and
\* at the one before it; and rotor 1 never keeps, over a step(), a position
\* whose successor is in its notch set.
C22_MiddleDoubleStep ==
    \A k \in LoggedSteps :
        /\ (k > 1 /\ stepLog[k + 1][3] # stepLog[k][3]) =>
                /\ stepLog[k + 1][2] = (stepLog[k][2] + 1) % 26
                /\ stepLog[k][2] = (stepLog[k - 1][2] + 1) % 26
        /\ (stepLog[k][2] + 1) % 26 \in rotors[2].steps =>
                stepLog[k + 1][2] # stepLog[k][2]

\* Rotor 1, with one notch, was carried by rotor 0 to the position before
\* its notch at the first step, and advanced again, with rotor 2, at the
\* second, where rotor 0 was not at its notch.
C22_Witness ==
    /\ runNo > 0
    /\ pc = "done"
    /\ Len(stepLog) = 4
    /\ Cardinality(rotors[2].steps) = 1
    /\ stepLog[2][1] \in rotors[1].steps
    /\ stepLog[3][1] \notin rotors[1].steps
    /\ stepLog[2][2] # stepLog[1][2]
    /\ stepLog[3][2] # stepLog[2][2]
    /\ stepLog[3][3] # stepLog[2][3]
    /\ stepLog[2][3] = stepLog[1][3]
    /\ stepLog[4][2] = stepLog[3][2]

\* The letters of a string, as indices 0..25.
IndicesOf(s) == {ord(s[k]) - 65 : k \in 1..Len(s)}

\* The letters the rotors at the positions p display, for the ring settings
\* ring: position plus ring setting, modulo 26.
Displayed(p, ring) == [j \in DOMAIN p |-> (p[j] + ring[j]) % 26]

\* C23 (the ring setting does not affect stepping): a constructed rotor
\* displays its initial-position letter, is at a position of its notch set
\* exactly when the letter it displays is one of its notch letters, and
\* displays the next letter after a step, whatever its ring setting; in a
\* run the letters displayed at construction are the initial-position
\* letters and those after each step() are a function of the letters
\* displayed before it and the notch letters alone, so that the ring
\* settings do not decide which rotors advance.
C23_RingIndependent ==
    /\ (Constructed /\ unit.kind = "Rotor" /\ built.err = "") =>
            LET ring == ord(unit.ringSetting[1]) - 65
                r == built.obj
                notch == IndicesOf(unit.steps)
            IN  /\ (r.pos + ring) % 26 = ord(unit.initialPosition[1]) - 65
                /\ \A p \in 0..25 : p \in r.steps <=> (p + ring) % 26 \in notch
                /\ (RotorStep(r).pos + ring) % 26 = (((r.pos + ring) % 26) + 1) % 26
    /\ (runNo > 0 /\ pc \in {"crypt", "done"}) =>
            LET specs == RotorSpecs(args)
                ring == [j \in 1..Len(specs) |-> ord(specs[j].ring[1]) - 65]
                notches == [j \in 1..Len(specs) |->
                                IndicesOf(ParseRotorStr(specs[j].str)[2])]
            IN  /\ runNo # 3 =>
                        Displayed(stepLog[1], ring)
                            = [j \in 1..Len(specs) |-> ord(specs[j].pos[1]) - 65]
                /\ \A j \in 1..Len(specs) :
                        LET notch == notches[j]
                            rj == ring[j]
                            steps == rotors[j].steps
                        IN  \A p \in 0..25 : p \in steps <=> (p + rj) % 26 \in notch
                /\ \A k \in 1..(Len(stepLog) - 1) :
                        Displayed(stepLog[k + 1], ring)
                            = NextPositions(Displayed(stepLog[k], ring), notches)

\* A run of a machine whose rotor 1 has ring setting B and the notch letter
\* F: rotor 1 advanced onto position 4, where it displays F, and rotor 2
\* advanced with it.
C23_Witness ==
    /\ runNo > 0
    /\ pc = "done"
    /\ args.rotor2ring = <<"B">>
    /\ rotors[2].steps = {4}
    /\ \E k \in 1..(Len(stepLog) - 1) :
            /\ stepLog[k][2] = 3
            /\ stepLog[k + 1][2] = 4
            /\ stepLog[k + 1][3] = (stepLog[k][3] + 1) % 26

\* C24 (stripping does not change the cipher letters): when run has
\* returned for one input with stripping enabled and with stripping
\* disabled, the arguments being the same otherwise, the letters of the two
\* outputs, in their order, are the same, and the two machines were left at
\* the same rotor positions.
C24_StripSameLetters ==
    (runNo = 5 /\ pc = "done" /\ Len(calls) = 2) =>
        /\ SelectSeq(calls[1].out, LetterChar) = SelectSeq(calls[2].out, LetterChar)
        /\ calls[1].end = calls[2].end

\* Both calls of run have returned for an input of 10 letters among 5 other
\* characters, on four rotors: the output with stripping is two groups of
\* five letters, the output without it holds the other characters where
\* they were, and the rotors have moved.
C24_Witness ==
    /\ runNo = 5
    /\ pc = "done"
    /\ Len(calls) = 2
    /\ Len(rotors) = 4
    /\ ~args.removeOther
    /\ Len(input) = 15
    /\ Len(calls[1].out) = 11
    /\ calls[1].out[6] = " "
    /\ Len(calls[2].out) = 15
    /\ calls[2].out[2] = "1"
    /\ calls[2].out[8] = "<"
    /\ calls[1].end = calls[2].end
    /\ calls[2].end # stepLog[1]

====
